---- MODULE Spec2Model ----
(***************************************************************************)
(* Model of .devenv/clangd/generate_clangd.py: the assignment of source    *)
(* files to compile databases (load_assignments), the path trie and its    *)
(* compression (insert_path, annotate_labels, select_nodes), the rendering *)
(* of PathMatch patterns (regex_for_path, build_fragments) and the run     *)
(* (main).                                                                 *)
(*                                                                         *)
(* A Python str is a sequence of one-character strings, so that len(),     *)
(* split("/"), "/".join(), re.escape(), string comparison and regular      *)
(* expression matching are computed character by character.  None is the   *)
(* empty sequence: no database key and no label is the empty string        *)
(* (Path.as_posix() of a relative path is never "").                       *)
(***************************************************************************)
EXTENDS Integers, Sequences, FiniteSets, TLC

VARIABLES
    pc,             \* position of main(): "start", "read", "resolve", "insert",
                    \* "select", "render", "write", "done", "fatal"
    compile_dbs,    \* keys of the compile_commands.json found by discover_compile_commands
    readable,       \* the found databases whose document parses to a list
    docs,           \* the (file, key) records of the readable documents
    todo,           \* databases load_assignments has not opened yet
    cur,            \* the database being read (None between databases)
    left,           \* records of cur not read yet
    file_to_dbs,    \* load_assignments: file -> set of claiming keys
    assigned,       \* load_assignments: file -> chosen key
    conflicts,      \* load_assignments: file -> claimants, for files with several
    inserted,       \* the (path, key) pairs handed to insert_path so far
    reinserted,     \* some insert_path call repeated an earlier (path, key) pair
    trie,           \* node (sequence of path parts) -> [terminal_dbs, label]
    selections,     \* result of select_nodes
    db_to_regexes,  \* result of build_fragments: sequence of [db, regexes], by key
    output          \* what main wrote to the .clangd (NoOutput while not written)

vars == <<pc, compile_dbs, readable, docs, todo, cur, left, file_to_dbs, assigned,
          conflicts, inserted, reinserted, trie, selections, db_to_regexes,
          output>>

\* ---------------------------------------------------------------- bounds

\* Largest number of (file, key) records in all documents of one run.
MaxClaims == 3
\* Largest number of distinct pairs inserted into a free-standing trie.
MaxInserts == 3

\* ---------------------------------------------------------------- strings

None == <<>>

\* The sentinel annotate_labels adds for a child without a single label.
MIXED == <<"_", "_", "M", "I", "X", "E", "D", "_", "_">>

\* Code point of a character: Python compares strings by code point.
Ord(c) ==
    CASE c = "$" -> 36 [] c = "*" -> 42 [] c = "." -> 46 [] c = "/" -> 47
      [] c = "D" -> 68 [] c = "E" -> 69 [] c = "I" -> 73 [] c = "M" -> 77
      [] c = "X" -> 88 [] c = "\\" -> 92 [] c = "^" -> 94 [] c = "_" -> 95
      [] c = "a" -> 97 [] c = "b" -> 98 [] c = "c" -> 99 [] c = "d" -> 100
      [] c = "e" -> 101

\* s < t for Python strings.
RECURSIVE StrLess(_, _)
StrLess(s, t) ==
    IF t = <<>> THEN FALSE
    ELSE IF s = <<>> THEN TRUE
    ELSE IF Head(s) = Head(t) THEN StrLess(Tail(s), Tail(t))
    ELSE Ord(Head(s)) < Ord(Head(t))

\* sorted(S) for a set of strings.
RECURSIVE SortedStrs(_)
SortedStrs(S) ==
    IF S = {} THEN <<>>
    ELSE LET m == CHOOSE x \in S : \A y \in S \ {x} : StrLess(x, y)
         IN <<m>> \o SortedStrs(S \ {m})

\* s.split("/")
RECURSIVE Split(_)
Split(s) ==
    IF \A i \in 1..Len(s) : s[i] # "/" THEN <<s>>
    ELSE LET i == CHOOSE i \in 1..Len(s) :
                      s[i] = "/" /\ \A j \in 1..(i - 1) : s[j] # "/"
         IN <<SubSeq(s, 1, i - 1)>> \o Split(SubSeq(s, i + 1, Len(s)))

\* "/".join(parts)
RECURSIVE Join(_)
Join(parts) ==
    IF parts = <<>> THEN <<>>
    ELSE IF Len(parts) = 1 THEN parts[1]
    ELSE parts[1] \o <<"/">> \o Join(Tail(parts))

\* ---------------------------------------------------------------- inputs

\* Database keys: directories of compile_commands.json files, root-relative.
Keys == { <<"a">>, <<"a", "/", "b">>, <<"a", "/", "d">>, MIXED }

\* Source files named by the records, root-relative.
Files == { <<"a", "/", "c">>, <<"a", "/", "c", "/", "d">>,
           <<"a", "/", "e">>, <<"a", ".", "c">> }

\* Paths the rendered patterns are tried on.
Paths == Files \cup { <<"a">>, <<"a", "b", "c">>, <<"a", "/", "d">>,
                      <<"a", "/", "b", "/", "c">>, <<"a", "/", "d", "/", "c">>,
                      <<"/", "a", "/", "c">> }

\* ---------------------------------------------------------------- load_assignments

\* (-len(s), s) < (-len(t), t): the tuples load_assignments sorts the claimants
\* by and build_fragments the patterns.
LenKeyLess(s, t) ==
    (0 - Len(s)) < (0 - Len(t)) \/ ((0 - Len(s)) = (0 - Len(t)) /\ StrLess(s, t))

\* sorted(S, key=lambda p: (-len(p), p)) for a set of strings.
RECURSIVE SortedByLenKey(_)
SortedByLenKey(S) ==
    IF S = {} THEN <<>>
    ELSE LET m == CHOOSE x \in S : \A y \in S \ {x} : LenKeyLess(x, y)
         IN <<m>> \o SortedByLenKey(S \ {m})

\* ChooseDb sorting by (len(p), p): the shortest claimant first.
ChooseDbShortest(dbs) ==
    CHOOSE k \in dbs :
        \A o \in dbs \ {k} : Len(k) < Len(o) \/ (Len(k) = Len(o) /\ StrLess(k, o))

\* chosen = sorted(dbs, key=lambda p: (-len(p), p))[0]
ChooseDb(dbs) == SortedByLenKey(dbs)[1]

\* AddClaim keeping the last claimant alone: file_to_dbs[rel] = {db_key}.
AddClaimOverwrite(f2d, rel, db_key) ==
    [f \in DOMAIN f2d \cup {rel} |-> IF f = rel THEN {db_key} ELSE f2d[f]]

\* file_to_dbs[rel].add(db_key)
AddClaim(f2d, rel, db_key) ==
    IF rel \in DOMAIN f2d
    THEN [f2d EXCEPT ![rel] = @ \cup {db_key}]
    ELSE [f \in DOMAIN f2d \cup {rel} |-> IF f = rel THEN {db_key} ELSE f2d[f]]

\* The second loop of load_assignments.
Assigned(f2d) == [f \in DOMAIN f2d |-> ChooseDb(f2d[f])]

Conflicts(f2d) ==
    [f \in {g \in DOMAIN f2d : Cardinality(f2d[g]) > 1} |-> f2d[f]]

\* ---------------------------------------------------------------- trie

\* TrieNode(): no children, no terminal database, label None.
NewNode == [terminal_dbs |-> {}, label |-> None]

\* A trie holding the root alone.
EmptyTrie == [n \in {<<>>} |-> NewNode]

\* node.children of the node at path n, as the paths of the child nodes.
Children(t, n) ==
    {m \in DOMAIN t : Len(m) = Len(n) + 1 /\ SubSeq(m, 1, Len(n)) = n}

\* InsertPath with terminal_dbs = {db} in place of terminal_dbs.add(db).
InsertPathReplacing(t, path_parts, db) ==
    LET walked == {SubSeq(path_parts, 1, i) : i \in 0..Len(path_parts)}
        grown  == [n \in DOMAIN t \cup walked |->
                      IF n \in DOMAIN t THEN t[n] ELSE NewNode]
    IN [grown EXCEPT ![path_parts].terminal_dbs = {db}]

\* insert_path(root, path_parts, db): setdefault along the parts, then
\* terminal_dbs.add(db) on the node reached.
InsertPath(t, path_parts, db) ==
    LET walked == {SubSeq(path_parts, 1, i) : i \in 0..Len(path_parts)}
        grown  == [n \in DOMAIN t \cup walked |->
                      IF n \in DOMAIN t THEN t[n] ELSE NewNode]
    IN [grown EXCEPT ![path_parts].terminal_dbs = @ \cup {db}]

\* The value annotate_labels(node) returns and stores in node.label.
RECURSIVE LabelOf(_, _)
LabelOf(t, n) ==
    LET labels == t[n].terminal_dbs \cup
                  { IF LabelOf(t, c) = None THEN MIXED ELSE LabelOf(t, c) :
                        c \in Children(t, n) }
    IN IF Cardinality(labels) = 1
       THEN LET label == CHOOSE l \in labels : TRUE
            IN IF label = MIXED THEN None ELSE label
       ELSE None

\* annotate_labels(root): every node's label is rewritten.
AnnotateLabels(t) == [n \in DOMAIN t |-> [t[n] EXCEPT !.label = LabelOf(t, n)]]

\* sorted(node.children.items()): the children's paths by part name.
SortedChildren(t, n) ==
    LET parts == SortedStrs({m[Len(m)] : m \in Children(t, n)})
    IN [i \in 1..Len(parts) |-> Append(n, parts[i])]

\* SelectNodes selecting a labeled node only when it has no children.
RECURSIVE SelectNodesLeafOnly(_, _, _)
RECURSIVE SelectChildrenLeafOnly(_, _, _)
SelectNodesLeafOnly(t, n, parent_label) ==
    IF t[n].label # None /\ t[n].label # parent_label /\ Children(t, n) = {}
    THEN << [path |-> Join(n), is_file_leaf |-> TRUE, db |-> t[n].label] >>
    ELSE SelectChildrenLeafOnly(t, SortedChildren(t, n), t[n].label)

SelectChildrenLeafOnly(t, kids, label) ==
    IF kids = <<>> THEN <<>>
    ELSE SelectNodesLeafOnly(t, Head(kids), label)
         \o SelectChildrenLeafOnly(t, Tail(kids), label)

\* select_nodes(node, current_parts, parent_label); a node is its own
\* current_parts.
RECURSIVE SelectNodes(_, _, _)
RECURSIVE SelectChildren(_, _, _)
SelectNodes(t, n, parent_label) ==
    IF t[n].label # None /\ t[n].label # parent_label
    THEN << [path |-> Join(n), is_file_leaf |-> Children(t, n) = {},
             db |-> t[n].label] >>
    ELSE SelectChildren(t, SortedChildren(t, n), t[n].label)

\* The loop of select_nodes over the sorted children.
SelectChildren(t, kids, label) ==
    IF kids = <<>> THEN <<>>
    ELSE SelectNodes(t, Head(kids), label) \o SelectChildren(t, Tail(kids), label)

\* ---------------------------------------------------------------- patterns

\* The characters of the model's alphabet that re.escape prefixes with a backslash.
SpecialChars == {"$", "*", ".", "\\", "^"}

\* re.escape(s)
RECURSIVE Escape(_)
Escape(s) ==
    IF s = <<>> THEN <<>>
    ELSE (IF Head(s) \in SpecialChars THEN <<"\\", Head(s)>> ELSE <<Head(s)>>)
         \o Escape(Tail(s))

\* regex_for_path(path, is_file_leaf)
RegexForPath(path, is_file_leaf) ==
    IF is_file_leaf
    THEN <<"^">> \o Escape(path) \o <<"$">>
    ELSE <<"^">> \o Escape(path) \o <<"/", ".", "*">>

\* f"^{re.escape(db_key)}/.*"
Fallback(db_key) == <<"^">> \o Escape(db_key) \o <<"/", ".", "*">>

\* The regular expression re, from its position i on, matches the text s from
\* its position j on.  Atoms: ^, $, an escaped character, the dot (any
\* character but a line break), a literal; an atom may carry a star.
RECURSIVE MatchAt(_, _, _, _)
MatchAt(re, i, s, j) ==
    IF i > Len(re) THEN TRUE
    ELSE IF re[i] = "^" THEN j = 1 /\ MatchAt(re, i + 1, s, j)
    ELSE IF re[i] = "$" THEN j = Len(s) + 1 /\ MatchAt(re, i + 1, s, j)
    ELSE LET width == IF re[i] = "\\" THEN 2 ELSE 1
             Atom(c) == IF re[i] = "\\" THEN c = re[i + 1]
                        ELSE IF re[i] = "." THEN c # "\n"
                        ELSE c = re[i]
             starred == i + width <= Len(re) /\ re[i + width] = "*"
         IN IF starred
            THEN \/ MatchAt(re, i + width + 1, s, j)
                 \/ j <= Len(s) /\ Atom(s[j]) /\ MatchAt(re, i, s, j + 1)
            ELSE j <= Len(s) /\ Atom(s[j]) /\ MatchAt(re, i + width, s, j + 1)

\* The PathMatch pattern re matches the root-relative path s.
Matches(re, s) == MatchAt(re, 1, s, 1)

\* unique = sorted(set(regexes), key=lambda s: (-len(s), s))
SortedRegexes(S) == SortedByLenKey(S)

\* The elements of a sequence.
Range(seq) == {seq[i] : i \in 1..Len(seq)}

\* The patterns build_fragments collects for db from the selections.
Rendered(sels, db) ==
    {RegexForPath(sel.path, sel.is_file_leaf) : sel \in {x \in Range(sels) : x.db = db}}

\* The part of build_fragments after select_nodes: group the rendered patterns by
\* database, add the fallback of a found database without a pattern, order and
\* deduplicate each list, order the databases by key.
Fragments(dbs, sels) ==
    LET selected == {sel.db : sel \in Range(sels)}
        keys     == SortedStrs(selected \cup dbs)
    IN [i \in 1..Len(keys) |->
           [db |-> keys[i],
            regexes |-> IF keys[i] \in selected
                        THEN SortedRegexes(Rendered(sels, keys[i]))
                        ELSE <<Fallback(keys[i])>>]]

\* db_to_regexes[db], the empty list for a database without an entry.
PatternsOf(frags, db) ==
    IF \E i \in 1..Len(frags) : frags[i].db = db
    THEN frags[CHOOSE i \in 1..Len(frags) : frags[i].db = db].regexes
    ELSE <<>>

\* ---------------------------------------------------------------- the run

\* What render_clangd is given and main writes: the pattern groups in their
\* order and the conflict count of the prelude.
Document(frags, confl) ==
    [written |-> TRUE, groups |-> frags, conflicts |-> Cardinality(DOMAIN confl)]

\* No .clangd written by this run.
NoOutput == [written |-> FALSE, groups |-> <<>>, conflicts |-> 0]

\* The program's inputs: the databases found after exclusion, which of their
\* documents parse to a list, and the in-repo records of those.
Init ==
    /\ pc = "start"
    /\ compile_dbs \in SUBSET Keys
    /\ readable \in SUBSET compile_dbs
    /\ docs \in {d \in SUBSET (Files \X readable) : Cardinality(d) <= MaxClaims}
    /\ todo = {}
    /\ cur = None
    /\ left = {}
    /\ file_to_dbs = <<>>
    /\ assigned = <<>>
    /\ conflicts = <<>>
    /\ inserted = {}
    /\ reinserted = FALSE
    /\ trie = EmptyTrie
    /\ selections = <<>>
    /\ db_to_regexes = <<>>
    /\ output = NoOutput

\* main: no compile_commands.json found: SystemExit.
NoDatabaseFound ==
    /\ pc = "start"
    /\ compile_dbs = {}
    /\ pc' = "fatal"
    /\ UNCHANGED <<compile_dbs, readable, docs, todo, cur, left, file_to_dbs,
                   assigned, conflicts, inserted, reinserted, trie,
                   selections, db_to_regexes, output>>

\* StartLoad without the test for an empty compile_dbs.
StartLoadUnchecked ==
    /\ pc = "start"
    /\ pc' = "read"
    /\ todo' = compile_dbs
    /\ UNCHANGED <<compile_dbs, readable, docs, cur, left, file_to_dbs, assigned,
                   conflicts, inserted, reinserted, trie, selections,
                   db_to_regexes, output>>

\* main: some compile_commands.json found: load_assignments is entered.
StartLoad ==
    /\ pc = "start"
    /\ compile_dbs # {}
    /\ pc' = "read"
    /\ todo' = compile_dbs
    /\ UNCHANGED <<compile_dbs, readable, docs, cur, left, file_to_dbs,
                   assigned, conflicts, inserted, reinserted, trie,
                   selections, db_to_regexes, output>>

\* load_assignments: the next database's document does not load, or is not a
\* list: continue.
SkipDb ==
    /\ pc = "read"
    /\ cur = None
    /\ \E db \in todo :
          /\ db \notin readable
          /\ todo' = todo \ {db}
    /\ UNCHANGED <<pc, compile_dbs, readable, docs, cur, left, file_to_dbs,
                   assigned, conflicts, inserted, reinserted, trie,
                   selections, db_to_regexes, output>>

\* load_assignments: the next database's document is a list: its records are
\* read one by one.
OpenDb ==
    /\ pc = "read"
    /\ cur = None
    /\ \E db \in todo :
          /\ db \in readable
          /\ todo' = todo \ {db}
          /\ cur' = db
          /\ left' = {r \in docs : r[2] = db}
    /\ UNCHANGED <<pc, compile_dbs, readable, docs, file_to_dbs, assigned,
                   conflicts, inserted, reinserted, trie, selections,
                   db_to_regexes, output>>

\* load_assignments: one record of the current document, in any order; a
\* record may occur again after it was read.
ReadEntry ==
    /\ pc = "read"
    /\ cur # None
    /\ \E r \in {x \in docs : x[2] = cur} :
          /\ file_to_dbs' = AddClaim(file_to_dbs, r[1], cur)
          /\ left' = left \ {r}
    /\ UNCHANGED <<pc, compile_dbs, readable, docs, todo, cur, assigned,
                   conflicts, inserted, reinserted, trie, selections,
                   db_to_regexes, output>>

\* load_assignments: the current document is exhausted.
CloseDb ==
    /\ pc = "read"
    /\ cur # None
    /\ left = {}
    /\ cur' = None
    /\ UNCHANGED <<pc, compile_dbs, readable, docs, todo, left, file_to_dbs,
                   assigned, conflicts, inserted, reinserted, trie,
                   selections, db_to_regexes, output>>

\* load_assignments: all databases read: every file gets its database, the
\* files with several claimants are recorded.
Resolve ==
    /\ pc = "read"
    /\ cur = None
    /\ todo = {}
    /\ assigned' = Assigned(file_to_dbs)
    /\ conflicts' = Conflicts(file_to_dbs)
    /\ pc' = "insert"
    /\ UNCHANGED <<compile_dbs, readable, docs, todo, cur, left, file_to_dbs,
                   inserted, reinserted, trie, selections, db_to_regexes,
                   output>>

\* build_fragments: insert_path for the next item of assignments.
InsertAssigned ==
    /\ pc = "insert"
    /\ \E f \in DOMAIN assigned :
          /\ <<f, assigned[f]>> \notin inserted
          /\ trie' = InsertPath(trie, Split(f), assigned[f])
          /\ inserted' = inserted \cup {<<f, assigned[f]>>}
    /\ UNCHANGED <<pc, compile_dbs, readable, docs, todo, cur, left,
                   file_to_dbs, assigned, conflicts, reinserted, selections,
                   db_to_regexes, output>>

\* build_fragments: all items inserted: annotate_labels(trie).
Annotate ==
    /\ pc = "insert"
    /\ \A f \in DOMAIN assigned : <<f, assigned[f]>> \in inserted
    /\ trie' = AnnotateLabels(trie)
    /\ pc' = "select"
    /\ UNCHANGED <<compile_dbs, readable, docs, todo, cur, left, file_to_dbs,
                   assigned, conflicts, inserted, reinserted, selections,
                   db_to_regexes, output>>

\* build_fragments: selections = select_nodes(trie, [], None).
Select ==
    /\ pc = "select"
    /\ selections' = SelectNodes(trie, <<>>, None)
    /\ pc' = "render"
    /\ UNCHANGED <<compile_dbs, readable, docs, todo, cur, left, file_to_dbs,
                   assigned, conflicts, inserted, reinserted, trie,
                   db_to_regexes, output>>

\* build_fragments: the pattern lists, fallbacks included, ordered.
Render ==
    /\ pc = "render"
    /\ db_to_regexes' = Fragments(compile_dbs, selections)
    /\ pc' = "write"
    /\ UNCHANGED <<compile_dbs, readable, docs, todo, cur, left, file_to_dbs,
                   assigned, conflicts, inserted, reinserted, trie,
                   selections, output>>

\* main: render_clangd and output.write_text.
WriteOutput ==
    /\ pc = "write"
    /\ output' = Document(db_to_regexes, conflicts)
    /\ pc' = "done"
    /\ UNCHANGED <<compile_dbs, readable, docs, todo, cur, left, file_to_dbs,
                   assigned, conflicts, inserted, reinserted, trie,
                   selections, db_to_regexes>>

Next ==
    \/ NoDatabaseFound
    \/ StartLoad
    \/ SkipDb
    \/ OpenDb
    \/ ReadEntry
    \/ CloseDb
    \/ Resolve
    \/ InsertAssigned
    \/ Annotate
    \/ Select
    \/ Render
    \/ WriteOutput

Spec == Init /\ [][Next]_vars

\* ---------------------------------------------------------------- the trie alone

\* A trie under construction by arbitrary insert_path calls, with no run of
\* main around it.
InitTrie ==
    /\ pc = "insert"
    /\ compile_dbs = {}
    /\ readable = {}
    /\ docs = {}
    /\ todo = {}
    /\ cur = None
    /\ left = {}
    /\ file_to_dbs = <<>>
    /\ assigned = <<>>
    /\ conflicts = <<>>
    /\ inserted = {}
    /\ reinserted = FALSE
    /\ trie = EmptyTrie
    /\ selections = <<>>
    /\ db_to_regexes = <<>>
    /\ output = NoOutput

\* insert_path(trie, f.split("/"), k) for any file and key, a pair inserted
\* before included.
InsertAny ==
    /\ pc = "insert"
    /\ \E f \in Files, k \in Keys :
          /\ <<f, k>> \in inserted \/ Cardinality(inserted) < MaxInserts
          /\ trie' = InsertPath(trie, Split(f), k)
          /\ inserted' = inserted \cup {<<f, k>>}
          /\ reinserted' = (reinserted \/ <<f, k>> \in inserted)
    /\ UNCHANGED <<pc, compile_dbs, readable, docs, todo, cur, left,
                   file_to_dbs, assigned, conflicts, selections,
                   db_to_regexes, output>>

\* annotate_labels(trie) on the trie built so far.
AnnotateAny ==
    /\ pc = "insert"
    /\ trie' = AnnotateLabels(trie)
    /\ pc' = "select"
    /\ UNCHANGED <<compile_dbs, readable, docs, todo, cur, left, file_to_dbs,
                   assigned, conflicts, inserted, reinserted, selections,
                   db_to_regexes, output>>

NextTrie ==
    \/ InsertAny
    \/ AnnotateAny
    \/ Select

SpecTrie == InitTrie /\ [][NextTrie]_vars

\* ---------------------------------------------------------------- claims

\* build_fragments has returned.
Built == pc \in {"write", "done"}

\* The database keys with a pattern list in the result of build_fragments.
ResultKeys == {db_to_regexes[i].db : i \in 1..Len(db_to_regexes)}

\* Some pattern of db's list matches the path.
MatchedBy(db, path) ==
    \E re \in Range(PatternsOf(db_to_regexes, db)) : Matches(re, path)

\* The files assigned to db.
FilesOf(db) == {f \in DOMAIN assigned : assigned[f] = db}

\* C1 (Coverage): once build_fragments has returned, every assigned file is
\* matched by a pattern of its own database's list and by no pattern of any
\* other database's list, fallback patterns included.
C1_Coverage ==
    Built =>
        \A f \in DOMAIN assigned :
            /\ MatchedBy(assigned[f], f)
            /\ \A db \in ResultKeys \ {assigned[f]} : ~MatchedBy(db, f)

\* C2 (Exclusivity): once build_fragments has returned, no path is matched by
\* the pattern lists of two distinct database keys, fallback patterns included.
C2_Exclusivity ==
    Built =>
        \A d1 \in ResultKeys, d2 \in ResultKeys :
            d1 # d2 => \A path \in Paths : ~(MatchedBy(d1, path) /\ MatchedBy(d2, path))

\* The second loop of load_assignments has run.
Resolved == pc \notin {"start", "read", "fatal"}

\* C3 (Conflict tie-break): once load_assignments has resolved, every claimed
\* file is assigned to one of its claimants, no claimant is strictly longer
\* than the assigned key, and every other claimant of the same length is
\* lexicographically greater; a single claimant is the assigned key.
C3_TieBreak ==
    Resolved =>
        /\ DOMAIN assigned = DOMAIN file_to_dbs
        /\ \A f \in DOMAIN file_to_dbs :
              /\ assigned[f] \in file_to_dbs[f]
              /\ \A o \in file_to_dbs[f] : Len(o) <= Len(assigned[f])
              /\ \A o \in file_to_dbs[f] \ {assigned[f]} :
                    Len(o) = Len(assigned[f]) => StrLess(assigned[f], o)
              /\ Cardinality(file_to_dbs[f]) = 1 => file_to_dbs[f] = {assigned[f]}

\* C3 witness: a file claimed by a short key and by two longer keys of equal
\* length is resolved to the smaller of the two longer ones.
C3_Witness ==
    /\ Resolved
    /\ \E f \in DOMAIN file_to_dbs :
          /\ file_to_dbs[f] = {<<"a">>, <<"a", "/", "b">>, <<"a", "/", "d">>}
          /\ assigned[f] = <<"a", "/", "b">>

\* The claimants of a file, read off the set of records.
ClaimantsOf(f) == {r[2] : r \in {x \in docs : x[1] = f}}

\* The assignment map as a function of the set of records.
AssignedOfClaims ==
    [f \in {r[1] : r \in docs} |-> ChooseDb(ClaimantsOf(f))]

\* The conflict map as a function of the set of records.
ConflictsOfClaims ==
    [f \in {g \in {r[1] : r \in docs} : Cardinality(ClaimantsOf(g)) > 1} |->
        ClaimantsOf(f)]

\* The trie of an assignment map inserted in one fixed order (by file name).
RECURSIVE TrieInOrder(_, _)
TrieInOrder(asg, files) ==
    IF files = <<>> THEN EmptyTrie
    ELSE LET f == files[Len(files)]
         IN InsertPath(TrieInOrder(asg, SubSeq(files, 1, Len(files) - 1)),
                       Split(f), asg[f])

\* The pattern lists as a function of the set of records and the found
\* databases.
FragmentsOfClaims ==
    LET t == AnnotateLabels(TrieInOrder(AssignedOfClaims,
                                        SortedStrs(DOMAIN AssignedOfClaims)))
    IN Fragments(compile_dbs, SelectNodes(t, <<>>, None))

\* C4 (Determinism, order independence): whatever the order in which the
\* databases and their records were read and the assignments inserted, and
\* however often a record was read, the assignment map, the conflict map and
\* the pattern lists of a finished run are those determined by the set of
\* records; and no file is resolved while databases are still being read.
C4_OrderIndependent ==
    /\ pc \in {"start", "read"} => assigned = <<>> /\ conflicts = <<>>
    /\ Resolved =>
          /\ assigned = AssignedOfClaims
          /\ conflicts = ConflictsOfClaims
    /\ Built => db_to_regexes = FragmentsOfClaims

\* C4 witness: a finished run over three records, two of them conflicting
\* claims on one file from two databases.
C4_Witness ==
    /\ pc = "done"
    /\ Cardinality(docs) = 3
    /\ Cardinality(DOMAIN conflicts) = 1
    /\ Cardinality(DOMAIN assigned) = 2

\* C5 (Minimality): once build_fragments has returned, every pattern rendered
\* from a selection is necessary: some file assigned to the selection's
\* database is matched by the database's list and by none of the list's other
\* patterns.
C5_Minimality ==
    Built =>
        \A sel \in Range(selections) :
            LET re == RegexForPath(sel.path, sel.is_file_leaf)
                others == Range(PatternsOf(db_to_regexes, sel.db)) \ {re}
            IN \E f \in FilesOf(sel.db) :
                  /\ MatchedBy(sel.db, f)
                  /\ \A o \in others : ~Matches(o, f)

C7_FallbackEmission ==
    Built =>
        \A db \in compile_dbs :
            /\ PatternsOf(db_to_regexes, db) # <<>>
            /\ FilesOf(db) = {} =>
                  PatternsOf(db_to_regexes, db) = <<Fallback(db)>>
            /\ FilesOf(db) # {} =>
                  /\ Rendered(selections, db) # {}
                  /\ PatternsOf(db_to_regexes, db) =
                         SortedRegexes(Rendered(selections, db))

\* C8 (Single-owner root): when every file of a non-empty assignment map has
\* the same database, select_nodes returns one selection: the root, that
\* database, not a leaf.
C8_SingleOwnerRoot ==
    pc \in {"render", "write", "done"} =>
        \A db \in Keys :
            (DOMAIN assigned # {} /\ \A f \in DOMAIN assigned : assigned[f] = db) =>
                selections = <<[path |-> <<>>, is_file_leaf |-> FALSE, db |-> db]>>

\* The label select_nodes is handed as parent_label at node n.
ParentLabel(n) ==
    IF n = <<>> THEN None ELSE trie[SubSeq(n, 1, Len(n) - 1)].label

\* The nodes whose label is defined and differs from their parent's.
Boundary ==
    {n \in DOMAIN trie : trie[n].label # None /\ trie[n].label # ParentLabel(n)}

\* Node m lies strictly below node n.
Below(m, n) == Len(m) > Len(n) /\ SubSeq(m, 1, Len(n)) = n

\* C9 (Idempotent compression): an insert_path call with a pair inserted
\* before leaves the trie as it was, and with it the labels annotate_labels
\* computes and the list select_nodes returns.
C9_ReinsertIdempotent ==
    [][(pc = "insert" /\ pc' = "insert" /\ inserted' = inserted) =>
          /\ trie' = trie
          /\ AnnotateLabels(trie') = AnnotateLabels(trie)
          /\ SelectNodes(AnnotateLabels(trie'), <<>>, None) =
                 SelectNodes(AnnotateLabels(trie), <<>>, None)]_vars

\* C9 witness: a pair was inserted again into a trie with a node that two
\* databases end at.
C9_Witness ==
    /\ reinserted
    /\ Cardinality(inserted) = MaxInserts
    /\ \E n \in DOMAIN trie : Cardinality(trie[n].terminal_dbs) = 2

\* C10 (Boundary selection rule): after annotate_labels and select_nodes from
\* the root, the selections are, one each, the nodes whose label is defined
\* and differs from their parent's label, with that label and with the leaf
\* flag of a node without children; no selected node lies below another.
C10_BoundaryRule ==
    pc = "render" =>
        /\ {sel.path : sel \in Range(selections)} = {Join(n) : n \in Boundary}
        /\ Len(selections) = Cardinality(Boundary)
        /\ \A n \in Boundary :
              [path |-> Join(n), is_file_leaf |-> Children(trie, n) = {},
               db |-> trie[n].label] \in Range(selections)
        /\ \A n \in Boundary, m \in Boundary : ~Below(m, n)

\* C10 witness: select_nodes passed an unlabeled root and an unlabeled node
\* below it, and selected a node with children and a leaf.
C10_Witness ==
    /\ pc = "render"
    /\ trie[<<>>].label = None
    /\ \E n \in DOMAIN trie : n # <<>> /\ trie[n].label = None
    /\ \E i \in 1..Len(selections), j \in 1..Len(selections) :
          selections[i].is_file_leaf /\ ~selections[j].is_file_leaf

\* The keys recorded in the terminal sets of node n and of the nodes below it.
SubtreeKeys(n) ==
    UNION {trie[m].terminal_dbs : m \in {x \in DOMAIN trie : x = n \/ Below(x, n)}}

\* C11 (Label correctness): after annotate_labels, a node's label is the key D
\* exactly when the keys recorded at the node and below it are {D}, and is
\* undefined exactly when there are two or more such keys, or none.
C11_LabelCorrect ==
    pc \in {"select", "render"} =>
        \A n \in DOMAIN trie :
            /\ \A db \in Keys : trie[n].label = db <=> SubtreeKeys(n) = {db}
            /\ trie[n].label = None <=> Cardinality(SubtreeKeys(n)) # 1

====
